---- MODULE Spec2Model ----
(***************************************************************************)
(* A state-machine model of the QUIC-like file transfer library:           *)
(* frame.py (STREAM frame codec), packet.py (packet codec), stream.py      *)
(* (sender / receiver halves and Stream), quic.py (QuicConnection: stream  *)
(* table, send loop, receive loop).                                        *)
(*                                                                         *)
(* bytes objects are sequences of naturals below 256; a Python dict is a   *)
(* function whose DOMAIN is its key set.  A value that may be None is a      *)
(* sequence: None is <<>> and an object x is <<x>>.                        *)
(***************************************************************************)
EXTENDS Integers, Sequences, FiniteSets, TLC

(***************************************************************************)
(* constants.py                                                            *)
(***************************************************************************)
START == 0
OFFSET_LENGTH == 8
LEN_LENGTH == 8
FRAME_TYPE_FIELD_LENGTH == 1
MIN_TYPE_FIELD == 8
OFF_BIT == 4
LEN_BIT == 2
FIN_BIT == 1
HEADER_LENGTH == 1
PACKET_NUMBER_LENGTH == 4
DEST_CONNECTION_ID_LENGTH == 8
PACKET_NUMBER_LENGTH_MASK == 3
STREAM_ID_LENGTH == 8
INIT_BY_MASK == 1
DIRECTION_MASK == 2
DATA_RECVD == 3
READY == 0
SEND == 1
DATA_SENT == 2
RECV == 0
SIZE_KNOWN == 1
DATA_READ == 2
MIN_PACKET_SIZE == 1000
MAX_PACKET_SIZE == 2000
PACKET_SIZE_BYTES == 2
FRAMES_IN_PACKET == 5
BASE_TWO == 2
CONNECTION_ID_SENDER == 0
CONNECTION_ID_RECEIVER == 1

(***************************************************************************)
(* sys.getsizeof, as the CPython 3.11 build (64 bit) answers it in         *)
(* _create_packet: a bytes object of n bytes has size 33 + n, and a Packet *)
(* instance (a dataclass without __slots__) has size 56 whatever it holds. *)
(***************************************************************************)
SIZEOF_BYTES_OBJECT == 33
SIZEOF_PACKET_OBJECT == 56

None == <<>>

Some(x) == <<x>>

(***************************************************************************)
(* Integers and bytes.                                                     *)
(***************************************************************************)
Min(a, b) == IF a <= b THEN a ELSE b

\* x & mask != 0, for a mask of one bit.
HasBit(x, mask) == (x \div mask) % 2 = 1

\* TLC's integers are 32 bits wide.  Every number the model writes is below
\* IntLimit; int.from_bytes of bytes that encode more (only met when a payload
\* is parsed out of step) keeps the value's residue, marked as out of range.
IntLimit == 2^21

Fold(v) == IF v < IntLimit THEN v ELSE IntLimit + (v % IntLimit)

\* b[lo:hi] of Python, for 0 <= lo and 0 <= hi.
Slice(b, lo, hi) == SubSeq(b, lo + 1, Min(hi, Len(b)))

\* b[lo:]
SliceFrom(b, lo) == SubSeq(b, lo + 1, Len(b))

RECURSIVE ToBytes(_, _)
\* n.to_bytes(k, 'big'); "OverflowError" when n does not fit in k bytes.
ToBytes(n, k) ==
    IF k = 0 THEN <<>> ELSE ToBytes(n \div 256, k - 1) \o <<n % 256>>

RECURSIVE FromBytesLittle(_)
\* the bytes read with the least significant byte first
FromBytesLittle(b) ==
    IF Len(b) = 0 THEN 0
    ELSE Fold(b[1] + 256 * FromBytesLittle(SubSeq(b, 2, Len(b))))

RECURSIVE FromBytes(_)
\* int.from_bytes(b, 'big')
FromBytes(b) ==
    IF Len(b) = 0 THEN 0
    ELSE Fold(FromBytes(SubSeq(b, 1, Len(b) - 1)) * 256 + b[Len(b)])

RECURSIVE bit_length(_)
\* int.bit_length()
bit_length(n) == IF n = 0 THEN 0 ELSE 1 + bit_length(n \div 2)

(***************************************************************************)
(* frame.py: FrameStream                                                   *)
(***************************************************************************)
FrameStream(stream_id, offset, length, fin, data) ==
    [stream_id |-> stream_id, offset |-> offset, length |-> length,
     fin |-> fin, data |-> data]

\* FrameStream.encode
encode(frame) ==
    LET off_present == frame.offset # 0
        len_present == frame.length # 0
        type_field  == MIN_TYPE_FIELD
                       + (IF off_present THEN OFF_BIT ELSE 0)
                       + (IF len_present THEN LEN_BIT ELSE 0)
                       + (IF frame.fin THEN FIN_BIT ELSE 0)
    IN  ToBytes(type_field, FRAME_TYPE_FIELD_LENGTH)
        \o ToBytes(frame.stream_id, STREAM_ID_LENGTH)
        \o (IF off_present THEN ToBytes(frame.offset, OFFSET_LENGTH) ELSE <<>>)
        \o (IF len_present THEN ToBytes(frame.length, LEN_LENGTH) ELSE <<>>)
        \o frame.data

\* a decoder that returns an empty frame whatever the bytes
decode_to_empty_frame(frame) ==
    [stream_id |-> 0, offset |-> 0, length |-> 0, fin |-> FALSE, data |-> <<>>]

\* FrameStream.decode / FrameStream._decode
decode(frame) ==
    LET type_field == FromBytes(Slice(frame, 0, FRAME_TYPE_FIELD_LENGTH))
        i0 == FRAME_TYPE_FIELD_LENGTH
        stream_id == FromBytes(Slice(frame, i0, i0 + STREAM_ID_LENGTH))
        i1 == i0 + STREAM_ID_LENGTH
        has_off == HasBit(type_field, OFF_BIT)
        offset == IF has_off THEN FromBytes(Slice(frame, i1, i1 + OFFSET_LENGTH))
                  ELSE 0
        i2 == IF has_off THEN i1 + OFFSET_LENGTH ELSE i1
        has_len == HasBit(type_field, LEN_BIT)
        length == IF has_len THEN FromBytes(Slice(frame, i2, i2 + LEN_LENGTH))
                  ELSE 0
        i3 == IF has_len THEN i2 + LEN_LENGTH ELSE i2
    IN  FrameStream(stream_id, offset, length, HasBit(type_field, FIN_BIT),
                    SliceFrom(frame, i3))

\* FrameStream.end_of_attrs
end_of_attrs(frame) ==
    LET type_field == FromBytes(Slice(frame, 0, FRAME_TYPE_FIELD_LENGTH))
    IN  FRAME_TYPE_FIELD_LENGTH + STREAM_ID_LENGTH
        + (IF HasBit(type_field, OFF_BIT) THEN OFFSET_LENGTH ELSE 0)
        + (IF HasBit(type_field, LEN_BIT) THEN LEN_LENGTH ELSE 0)

\* FrameStream.length_from_attrs
length_from_attrs(frame, end) ==
    LET index == FRAME_TYPE_FIELD_LENGTH + STREAM_ID_LENGTH
    IN  IF end <= FRAME_TYPE_FIELD_LENGTH + STREAM_ID_LENGTH THEN 0
        ELSE IF end <= index + OFFSET_LENGTH
             THEN FromBytes(Slice(frame, index, index + LEN_LENGTH))
             ELSE FromBytes(Slice(frame, index + OFFSET_LENGTH,
                                  index + OFFSET_LENGTH + LEN_LENGTH))

(***************************************************************************)
(* packet.py: PacketHeader, Packet                                         *)
(***************************************************************************)
Packet(destination_connection_id, packet_number) ==
    [destination_connection_id |-> destination_connection_id,
     packet_number |-> packet_number, payload |-> <<>>]

\* Packet.add_frame
add_frame(packet, frame) ==
    [packet EXCEPT !.payload = Append(@, frame)]

\* PacketHeader(packet_number_length).pack(): every flag is left at its
\* default (False / 0), so the byte is the packet_number_length itself.
PacketHeader_pack(packet_number_length) ==
    ToBytes(packet_number_length, HEADER_LENGTH)

\* PacketHeader.unpack(header).packet_number_length
PacketHeader_unpack(header) ==
    FromBytes(header) % (PACKET_NUMBER_LENGTH_MASK + 1)

RECURSIVE EncodeAll(_)
EncodeAll(frames) ==
    IF frames = <<>> THEN <<>>
    ELSE encode(Head(frames)) \o EncodeAll(Tail(frames))

\* Packet.pack
pack(packet) ==
    LET packet_number_length == (bit_length(packet.packet_number) + 7) \div 8
    IN  PacketHeader_pack(packet_number_length)
        \o ToBytes(packet.destination_connection_id, DEST_CONNECTION_ID_LENGTH)
        \o ToBytes(packet.packet_number, packet_number_length)
        \o EncodeAll(packet.payload)

RECURSIVE FramesFrom(_, _)
\* the while loop of Packet.get_frames_from_payload_bytes, from index on
FramesFrom(payload_bytes, index) ==
    IF index >= Len(payload_bytes) THEN <<>>
    ELSE LET end == end_of_attrs(Slice(payload_bytes, index,
                                       index + FRAME_TYPE_FIELD_LENGTH))
             length_of_frame_data ==
                 length_from_attrs(Slice(payload_bytes, index, index + end), end)
         IN  <<decode(Slice(payload_bytes, index,
                            index + end + length_of_frame_data))>>
             \o FramesFrom(payload_bytes, index + end + length_of_frame_data)

\* Packet.get_frames_from_payload_bytes
get_frames_from_payload_bytes(payload_bytes) == FramesFrom(payload_bytes, START)

\* Packet.unpack
unpack(packet_bytes) ==
    LET packet_number_length ==
            PacketHeader_unpack(Slice(packet_bytes, 0, HEADER_LENGTH))
        i0 == HEADER_LENGTH
        destination_connection_id ==
            FromBytes(Slice(packet_bytes, i0, i0 + DEST_CONNECTION_ID_LENGTH))
        i1 == i0 + DEST_CONNECTION_ID_LENGTH
        packet_number ==
            FromBytes(Slice(packet_bytes, i1, i1 + PACKET_NUMBER_LENGTH))
        i2 == i1 + packet_number_length
    IN  [destination_connection_id |-> destination_connection_id,
         packet_number |-> packet_number,
         payload |-> get_frames_from_payload_bytes(SliceFrom(packet_bytes, i2))]

(***************************************************************************)
(* stream.py: StreamEndpointABC, StreamSender, StreamReceiver, Stream      *)
(***************************************************************************)
\* StreamSender.__init__ (with StreamEndpointABC.__init__)
StreamSender(stream_id, is_usable) ==
    [stream_id |-> stream_id, curr_offset |-> 0, buffer |-> <<>>,
     state |-> START, is_usable |-> is_usable, stream_frames |-> <<>>]

\* StreamReceiver.__init__ (with StreamEndpointABC.__init__)
StreamReceiver(stream_id, is_usable) ==
    [stream_id |-> stream_id, curr_offset |-> 0, buffer |-> <<>>,
     state |-> START, is_usable |-> is_usable,
     recv_frame_dict |-> [o \in {} |-> <<>>]]

\* a terminal test that looks at the state only
is_in_data_recvd(endpoint) == endpoint.state = DATA_RECVD

\* StreamEndpointABC.is_terminal_state
is_terminal_state(endpoint) ==
    endpoint.state = DATA_RECVD \/ ~endpoint.is_usable

\* an add that appends whatever the state is
add_data_in_any_state(sender, data) ==
    [half |-> [sender EXCEPT !.buffer = @ \o data], raised |-> FALSE]

\* StreamSender.add_data_to_buffer: the sender afterwards, and whether
\* ValueError was raised.
add_data_to_buffer(sender, data) ==
    IF sender.state = READY
    THEN [half |-> [sender EXCEPT !.buffer = @ \o data], raised |-> FALSE]
    ELSE [half |-> sender, raised |-> TRUE]

\* StreamSender._get_total_stream_frames_amount
get_total_stream_frames_amount(sender, max_size) ==
    IF Len(sender.buffer) < max_size THEN 1
    ELSE Len(sender.buffer) \div max_size

\* a FIN frame that leaves the rest of the buffer behind
fin_frame_without_rest(sender) ==
    FrameStream(sender.stream_id, sender.curr_offset, 0, TRUE, <<>>)

\* StreamSender.generate_fin_frame: the frame it returns (the state change is
\* made by generate_stream_frames below, its only caller).
generate_fin_frame(sender) ==
    FrameStream(sender.stream_id, sender.curr_offset,
                Len(SliceFrom(sender.buffer, sender.curr_offset)), TRUE,
                SliceFrom(sender.buffer, sender.curr_offset))

\* StreamSender.generate_stream_frames: the sender afterwards.
generate_stream_frames(sender, max_size) ==
    LET total_stream_frames == get_total_stream_frames_amount(sender, max_size)
        chunks ==
            IF total_stream_frames > 1
            THEN [i \in 1..total_stream_frames |->
                    FrameStream(sender.stream_id,
                                sender.curr_offset + (i - 1) * max_size,
                                max_size, FALSE,
                                Slice(sender.buffer,
                                      sender.curr_offset + (i - 1) * max_size,
                                      sender.curr_offset + i * max_size))]
            ELSE <<>>
        advanced == [sender EXCEPT !.curr_offset = @ + Len(chunks) * max_size,
                                   !.state = DATA_SENT]
    IN  [advanced EXCEPT
            !.stream_frames = sender.stream_frames \o chunks
                              \o <<generate_fin_frame(advanced)>>]

\* StreamSender.send_next_frame: the sender afterwards and the frame
\* returned (None when the list is empty).
send_next_frame(sender) ==
    IF sender.stream_frames # <<>>
    THEN LET frame == Head(sender.stream_frames)
         IN  [half |-> [sender EXCEPT
                          !.stream_frames = Tail(@),
                          !.state = IF frame.fin THEN DATA_RECVD ELSE SEND],
              frame |-> Some(frame)]
    ELSE [half |-> sender, frame |-> None]

RECURSIVE OffsetsDescending(_)
\* the keys of a dict from the greatest to the least
OffsetsDescending(keys) ==
    IF keys = {} THEN <<>>
    ELSE LET greatest == CHOOSE k \in keys : \A other \in keys : k >= other
         IN  <<greatest>> \o OffsetsDescending(keys \ {greatest})

RECURSIVE SortedOffsets(_)
\* the keys of a dict in ascending order: sorted(d.items())
SortedOffsets(keys) ==
    IF keys = {} THEN <<>>
    ELSE LET least == CHOOSE k \in keys : \A other \in keys : k <= other
         IN  <<least>> \o SortedOffsets(keys \ {least})

RECURSIVE JoinValues(_, _)
JoinValues(dict, offsets) ==
    IF offsets = <<>> THEN <<>>
    ELSE dict[Head(offsets)] \o JoinValues(dict, Tail(offsets))

\* StreamReceiver._convert_dict_to_buffer (only called in SIZE_KNOWN, where
\* _add_data_to_buffer appends every value)
convert_dict_to_buffer(receiver) ==
    [receiver EXCEPT
        !.buffer = @ \o JoinValues(receiver.recv_frame_dict,
                                   SortedOffsets(DOMAIN receiver.recv_frame_dict)),
        !.state = DATA_RECVD]

\* StreamReceiver._add_frame_to_recv_dict
add_frame_to_recv_dict(receiver, frame) ==
    LET stored ==
            [receiver EXCEPT
               !.recv_frame_dict =
                   [o \in DOMAIN receiver.recv_frame_dict \cup {frame.offset} |->
                      IF o = frame.offset THEN frame.data
                      ELSE receiver.recv_frame_dict[o]],
               !.curr_offset = @ + Len(frame.data)]
    IN  IF stored.state = SIZE_KNOWN THEN convert_dict_to_buffer(stored)
        ELSE stored

\* a delivery that stores the frame and leaves the FIN bit out of account
stream_frame_stored(receiver, frame) == add_frame_to_recv_dict(receiver, frame)

\* StreamReceiver.stream_frame_recvd (with _fin_recvd)
stream_frame_recvd(receiver, frame) ==
    add_frame_to_recv_dict(
        IF frame.fin THEN [receiver EXCEPT !.state = SIZE_KNOWN] ELSE receiver,
        frame)

\* a read that returns the buffer whatever the state is
get_data_in_any_state(receiver) ==
    [half |-> [receiver EXCEPT !.state = DATA_READ],
     data |-> receiver.buffer, raised |-> FALSE]

\* StreamReceiver.get_data_from_buffer: the receiver afterwards, the bytes
\* returned, and whether ValueError was raised.
get_data_from_buffer(receiver) ==
    IF receiver.state = DATA_RECVD
    THEN [half |-> [receiver EXCEPT !.state = DATA_READ],
          data |-> receiver.buffer, raised |-> FALSE]
    ELSE [half |-> receiver, data |-> <<>>, raised |-> TRUE]

\* Stream.__init__
Stream(stream_id, is_uni, is_s_initiated) ==
    [stream_id |-> stream_id, is_uni |-> is_uni,
     is_s_initiated |-> is_s_initiated,
     sender |-> StreamSender(stream_id,
                             (is_uni /\ ~is_s_initiated) \/ ~is_uni),
     receiver |-> StreamReceiver(stream_id,
                                 (is_uni /\ is_s_initiated) \/ ~is_uni)]

\* a finished test that asks the sender half whatever the stream is
is_finished_by_sender(stream) == is_terminal_state(stream.sender)

\* a finished test that asks the receiver half whatever the stream is
is_finished_by_receiver(stream) == is_terminal_state(stream.receiver)

\* Stream.is_finished
is_finished(stream) ==
    IF ~stream.is_uni
    THEN is_terminal_state(stream.receiver) \/ is_terminal_state(stream.sender)
    ELSE IF stream.is_s_initiated
         THEN is_terminal_state(stream.receiver)
         ELSE is_terminal_state(stream.sender)

\* Stream.is_uni_by_sid
is_uni_by_sid(stream_id) == HasBit(stream_id, DIRECTION_MASK)

\* Stream.is_s_init_by_sid
is_s_init_by_sid(stream_id) == HasBit(stream_id, INIT_BY_MASK)

(***************************************************************************)
(* quic.py: QuicConnection, the operations on one connection object        *)
(***************************************************************************)
\* QuicConnection.__init__ ; closes counts the calls of _close_connection
\* (each closes the socket and prints the statistics).
QuicConnection(connection_id) ==
    [connection_id |-> connection_id,
     streams |-> [sid \in {} |-> 0],
     active_streams_ids |-> <<>>,
     streams_counter |-> 0,
     sent_packets_counter |-> 0,
     received_packets_counter |-> 0,
     pending_frames |-> <<>>,
     packet_size |-> 0,
     idle |-> TRUE,
     closes |-> 0]

RECURSIVE BinDigits(_)
\* bin(n)[2:], as a sequence of binary digits
BinDigits(n) ==
    IF n < BASE_TWO THEN <<n>>
    ELSE BinDigits(n \div BASE_TWO) \o <<n % BASE_TWO>>

RECURSIVE IntOfDigits(_)
\* int(str_binary, 2)
IntOfDigits(digits) ==
    IF digits = <<>> THEN 0
    ELSE IntOfDigits(SubSeq(digits, 1, Len(digits) - 1)) * BASE_TWO
         + digits[Len(digits)]

\* a generator that appends the two digits in the other order
stream_id_generator_swapped(cn, initiated_by, direction) ==
    IntOfDigits(BinDigits(cn.streams_counter) \o <<initiated_by>> \o <<direction>>)

\* QuicConnection._stream_id_generator
stream_id_generator(cn, initiated_by, direction) ==
    IntOfDigits(BinDigits(cn.streams_counter) \o <<direction>> \o <<initiated_by>>)

\* QuicConnection._is_stream_id_in_dict
is_stream_id_in_dict(cn, stream_id) == stream_id \in DOMAIN cn.streams

\* QuicConnection._add_stream: Stream is constructed with the arguments in
\* the order (stream_id, initiated_by, direction).
add_stream(cn, stream_id, initiated_by, direction) ==
    [cn EXCEPT
       !.streams = [sid \in DOMAIN cn.streams \cup {stream_id} |->
                      IF sid = stream_id
                      THEN Stream(stream_id, initiated_by, direction)
                      ELSE cn.streams[sid]],
       !.streams_counter = @ + 1]

\* QuicConnection._get_stream_by_id: the connection afterwards (the stream is
\* then streams[stream_id]).
get_stream_by_id(cn, stream_id) ==
    IF ~is_stream_id_in_dict(cn, stream_id)
    THEN add_stream(cn, stream_id, is_s_init_by_sid(stream_id),
                    is_uni_by_sid(stream_id))
    ELSE cn

\* QuicConnection.get_stream: the connection afterwards and the id of the
\* stream returned.
get_stream(cn, initiated_by, direction) ==
    LET stream_id == stream_id_generator(cn, initiated_by, direction)
    IN  [conn |-> IF ~is_stream_id_in_dict(cn, stream_id)
                  THEN add_stream(cn, stream_id, initiated_by # 0, direction # 0)
                  ELSE cn,
         stream_id |-> stream_id]

RECURSIVE RemoveFirst(_, _)
\* list.remove(x), x in the list
RemoveFirst(list, x) ==
    IF list = <<>> THEN <<>>
    ELSE IF Head(list) = x THEN Tail(list)
         ELSE <<Head(list)>> \o RemoveFirst(Tail(list), x)

InList(list, x) == \E i \in 1..Len(list) : list[i] = x

\* QuicConnection._remove_stream (the stream is active and in the table
\* wherever the connection calls it)
remove_stream(cn, stream_id) ==
    [cn EXCEPT
       !.active_streams_ids = RemoveFirst(@, stream_id),
       !.streams = [sid \in DOMAIN cn.streams \ {stream_id} |-> cn.streams[sid]]]

\* an add that appends the id whether or not it is in the list
add_active_stream_id_again(cn, stream_id) ==
    [cn EXCEPT !.active_streams_ids = Append(@, stream_id)]

\* QuicConnection._add_active_stream_id
add_active_stream_id(cn, stream_id) ==
    IF ~InList(cn.active_streams_ids, stream_id)
    THEN [cn EXCEPT !.active_streams_ids = Append(@, stream_id)]
    ELSE cn

\* QuicConnection._add_data_to_stream: the connection afterwards and whether
\* ValueError was raised (then the stream is not marked active).
add_data_to_stream(cn, stream_id, data) ==
    LET found == get_stream_by_id(cn, stream_id)
        res == add_data_to_buffer(found.streams[stream_id].sender, data)
        written == [found EXCEPT !.streams[stream_id].sender = res.half]
    IN  IF res.raised THEN [conn |-> found, raised |-> TRUE]
        ELSE [conn |-> add_active_stream_id(written, stream_id),
              raised |-> FALSE]

RECURSIVE GenerateFor(_, _, _)
\* the for loop of _generate_streams_frames over the ids from position i on
GenerateFor(cn, i, max_size) ==
    IF i > Len(cn.active_streams_ids) THEN cn
    ELSE LET sid == cn.active_streams_ids[i]
             found == get_stream_by_id(cn, sid)
         IN  GenerateFor(
                 [found EXCEPT !.streams[sid].sender =
                                  generate_stream_frames(@, max_size)],
                 i + 1, max_size)

\* QuicConnection._generate_streams_frames, given the module's PACKET_SIZE
generate_streams_frames(cn, module_packet_size) ==
    GenerateFor(cn, 1, module_packet_size \div FRAMES_IN_PACKET)

\* a close that leaves the connection as it is
leave_connection_open(cn) == cn

\* QuicConnection._close_connection
close_connection(cn) ==
    [cn EXCEPT !.idle = FALSE, !.closes = @ + 1]

\* QuicConnection._write_stream: the connection afterwards, the file written
\* (None when get_data_received raised, after the stream was removed).
write_stream(cn, stream_id) ==
    LET stream == cn.streams[stream_id]
        removed == remove_stream(cn, stream_id)
        res == get_data_from_buffer(stream.receiver)
    IN  [conn |-> removed,
         file |-> IF res.raised THEN None
                  ELSE Some([stream_id |-> stream_id, data |-> res.data])]

\* one iteration of the for loop of _handle_received_packet: the connection
\* and the list of files written afterwards
HandleFrame(cn, written, frame) ==
    LET stream_id == frame.stream_id
        active == add_active_stream_id(cn, stream_id)
        found == get_stream_by_id(active, stream_id)
        delivered == [found EXCEPT !.streams[stream_id].receiver =
                                      stream_frame_recvd(@, frame)]
    IN  IF is_finished(delivered.streams[stream_id])
        THEN LET res == write_stream(delivered, stream_id)
             IN  [conn |-> res.conn,
                  files |-> written \o res.file]
        ELSE [conn |-> delivered, files |-> written]

RECURSIVE HandleFrames(_, _, _)
HandleFrames(cn, written, frames) ==
    IF frames = <<>> THEN [conn |-> cn, files |-> written]
    ELSE LET res == HandleFrame(cn, written, Head(frames))
         IN  HandleFrames(res.conn, res.files, Tail(frames))

\* one iteration of the for loop of _handle_received_packet where open()
\* raises in _write_stream when open_fails: the error is caught there, after
\* the stream was removed and read, and no file is written
HandleFrameEnv(cn, written, frame, open_fails) ==
    IF open_fails
    THEN [conn |-> HandleFrame(cn, written, frame).conn, files |-> written]
    ELSE HandleFrame(cn, written, frame)

\* a for loop that is left at the frame whose dispatch raised
HandleFramesAborting(cn, written, frames, fail) ==
    IF fail >= 1 /\ fail <= Len(frames)
    THEN HandleFrames(cn, written, SubSeq(frames, 1, fail - 1))
    ELSE HandleFrames(cn, written, frames)

RECURSIVE HandleFramesEnv(_, _, _, _)
\* the for loop where open() raises for the frame at position fail (0: for
\* none)
HandleFramesEnv(cn, written, frames, fail) ==
    IF frames = <<>> THEN [conn |-> cn, files |-> written]
    ELSE LET res == HandleFrameEnv(cn, written, Head(frames), fail = 1)
         IN  HandleFramesEnv(res.conn, res.files, Tail(frames), fail - 1)

\* QuicConnection._handle_received_packet
handle_received_packet(cn, written, packet_bytes) ==
    HandleFrames(cn, written, unpack(packet_bytes).payload)

(***************************************************************************)
(* State.                                                                  *)
(*                                                                         *)
(* Two endpoint processes: the one with connection id 0 runs send_packets, *)
(* the one with connection id 1 runs receive_packets.  wire is the list of *)
(* datagrams the sender has handed to sendto, in order; the receiver has   *)
(* taken the first rx of them with recvfrom (every datagram is delivered   *)
(* once and in order).                                                     *)
(***************************************************************************)
VARIABLES
    PACKET_SIZE,      \* quic.PACKET_SIZE of the sending process
    conn,             \* connection id -> QuicConnection object
    pc,               \* connection id -> where its process is
    packet,           \* _create_packet's local: the packet being built
    remaining_space,  \* _create_packet's local
    wire,
    rx,
    files,            \* receiver: the files written, in order
    loaded,           \* history: stream id -> bytes given to the sender
    handed,           \* history: frames returned by send_next_frame
    placed,           \* history: frames added to packets, with the packet number
    h_snd,            \* a sender half driven on its own
    h_rcv,            \* a receiver half driven on its own
    h_phase,          \* "send": the sender half is driven; "recv": the receiver
    h_pre,            \* history: the sender half before its last generate call
    h_calls,          \* history: number of generate_stream_frames calls
    h_out,            \* history: frames returned by h_snd's send_next_frame
    h_in,             \* history: positions of h_out delivered to h_rcv
    h_late,           \* history: a frame was delivered after a FIN frame
    h_reads,          \* history: results of get_data_from_buffer on h_rcv
    c_pc,             \* codec: "idle", "build", "packed"
    c_packet,         \* codec: a Packet object a caller builds
    c_bytes,          \* codec: c_packet.pack()
    c_unpacked,       \* codec: Packet.unpack(c_bytes), or None before the call
    c_parsed,         \* codec: get_frames_from_payload_bytes of the encoded
                      \* frames of c_packet, or None before the call
    t_conn,           \* a connection object whose stream table is driven
    t_got,            \* history: the get_stream calls on t_conn
    t_last,           \* history: the last frame operation on a stream of
                      \* t_conn, the stream after it and its is_finished()
    s_snd,            \* a sender half whose add_data_to_buffer calls are kept
    s_add,            \* history: the last add_data_to_buffer call on s_snd
    d_conn,           \* a receiving connection that was told the packet size
    d_files,          \* the files d_conn has written
    d_pc,             \* "receive_packets" or "returned"
    d_last            \* history: the last datagram d_conn handled, the
                      \* connection and files before it, the frame whose file
                      \* could not be opened (0: none)

connVars == <<PACKET_SIZE, conn, pc, packet, remaining_space, wire, rx, files,
              loaded, handed, placed>>

halfVars == <<h_snd, h_rcv, h_phase, h_pre, h_calls, h_out, h_in, h_late,
              h_reads>>

codecVars == <<c_pc, c_packet, c_bytes, c_unpacked, c_parsed>>

tableVars == <<t_conn, t_got, t_last>>

senderVars == <<s_snd, s_add>>

dispatchVars == <<d_conn, d_files, d_pc, d_last>>

vars == <<connVars, halfVars, codecVars, tableVars, senderVars, dispatchVars>>

Snd == CONNECTION_ID_SENDER

Rcv == CONNECTION_ID_RECEIVER

(***************************************************************************)
(* Bounds of the model.                                                    *)
(***************************************************************************)
\* get_stream calls made before send_packets
MaxStreams == 2

\* packets send_packets builds
MaxPackets == 3

\* packets send_packets builds in the run of a long and a short stream
MaxFairPackets == 13

\* quarters of the frame budget given to the long stream of that run
MaxFairLoad == 128

\* bytes in the buffer of the sender half driven on its own
MaxLen == 3

\* frames that sender half generates in all
MaxFrames == 4

\* get_data_from_buffer calls on the receiver half driven on its own
MaxReads == 2

\* The packet sizes random.randint(MIN_PACKET_SIZE, MAX_PACKET_SIZE) is
\* modelled to draw.
PacketSizes == {MIN_PACKET_SIZE}

\* The lengths of the data given to a stream, in quarters of the frame
\* budget PACKET_SIZE // FRAMES_IN_PACKET.
LoadQuarters == {5, 14, 15, 30}

\* quarters of the frame budget given to a stream
MaxLoad == 30

\* quarters of the frame budget given to all streams together when more
\* than one is loaded
MaxSharedLoad == 19

FrameBudget == PACKET_SIZE \div FRAMES_IN_PACKET

LoadLengths == {(q * FrameBudget) \div 4 : q \in LoadQuarters}

RECURSIVE TotalLength(_, _)
\* the bytes held by the buffers the ids in sids map to
TotalLength(buffers, sids) ==
    IF sids = {} THEN 0
    ELSE LET sid == CHOOSE x \in sids : TRUE
         IN  Len(buffers[sid]) + TotalLength(buffers, sids \ {sid})

\* The bytes given to a stream: they differ from place to place and from
\* stream to stream.
Payload(tag, from, n) == [i \in 1..n |-> (from + i + 16 * tag) % 251]

ConnInit ==
    /\ PACKET_SIZE \in PacketSizes
    /\ conn = [c \in {Snd, Rcv} |-> QuicConnection(c)]
    /\ pc = [c \in {Snd, Rcv} |-> IF c = Snd THEN "setup" ELSE "receive_packets"]
    /\ packet = Packet(0, 0)
    /\ remaining_space = 0
    /\ wire = <<>>
    /\ rx = 0
    /\ files = <<>>
    /\ loaded = [sid \in {} |-> <<>>]
    /\ handed = <<>>
    /\ placed = <<>>

HalfInit ==
    /\ h_snd = StreamSender(0, TRUE)
    /\ h_rcv = StreamReceiver(0, TRUE)
    /\ h_phase = "send"
    /\ h_pre = [sender |-> StreamSender(0, TRUE), max_size |-> 0]
    /\ h_calls = 0
    /\ h_out = <<>>
    /\ h_in = {}
    /\ h_late = FALSE
    /\ h_reads = <<>>

CodecInit ==
    /\ c_pc = "idle"
    /\ c_packet = Packet(0, 0)
    /\ c_bytes = <<>>
    /\ c_unpacked = None
    /\ c_parsed = None

TableInit ==
    /\ t_conn = QuicConnection(Snd)
    /\ t_got = <<>>
    /\ t_last = [op |-> "none", stream |-> Stream(0, FALSE, FALSE),
                 fin |-> FALSE, finished |-> FALSE]

SenderInit ==
    /\ s_snd = StreamSender(0, TRUE)
    /\ s_add = [called |-> FALSE, sender |-> StreamSender(0, TRUE),
                data |-> <<>>, raised |-> FALSE]

\* the connection of the receiving process after the size datagram
DispatchInit ==
    /\ d_conn = [QuicConnection(Rcv) EXCEPT !.packet_size = MIN_PACKET_SIZE,
                                             !.received_packets_counter = 1]
    /\ d_files = <<>>
    /\ d_pc = "receive_packets"
    /\ d_last = [called |-> FALSE, conn |-> QuicConnection(Rcv),
                 files |-> <<>>, bytes |-> <<>>, fail |-> 0,
                 malformed |-> FALSE]

Init ==
    ConnInit /\ HalfInit /\ CodecInit /\ TableInit /\ SenderInit /\ DispatchInit

(***************************************************************************)
(* The sending process: the application's calls, then send_packets.        *)
(***************************************************************************)
\* a size that leaves the bytes held out of account
getsizeof_header_only(bytes) == SIZEOF_BYTES_OBJECT + 0 * Len(bytes)

\* sys.getsizeof of a bytes object
getsizeof(bytes) == SIZEOF_BYTES_OBJECT + Len(bytes)

\* the application calls get_stream(initiated_by, direction)
GetStream(initiated_by, direction) ==
    /\ pc[Snd] = "setup"
    /\ conn[Snd].streams_counter < MaxStreams
    /\ conn' = [conn EXCEPT ![Snd] = get_stream(@, initiated_by, direction).conn]
    /\ UNCHANGED <<PACKET_SIZE, pc, packet, remaining_space, wire, rx, files,
                   loaded, handed, placed>>
    /\ UNCHANGED <<halfVars, codecVars, tableVars, senderVars, dispatchVars>>

\* the application gives n bytes to a stream it got (add_file_to_stream /
\* _add_data_to_stream), once for each stream
AddDataToStream(stream_id, n) ==
    /\ pc[Snd] = "setup"
    /\ stream_id \in DOMAIN conn[Snd].streams
    /\ stream_id \notin DOMAIN loaded
    /\ 4 * (TotalLength(loaded, DOMAIN loaded) + n)
          <= FrameBudget * (IF DOMAIN loaded = {} THEN MaxLoad ELSE MaxSharedLoad)
    /\ LET data == Payload(stream_id, 0, n)
           res == add_data_to_stream(conn[Snd], stream_id, data)
       IN  /\ conn' = [conn EXCEPT ![Snd] = res.conn]
           /\ loaded' = IF res.raised THEN loaded
                        ELSE [sid \in DOMAIN loaded \cup {stream_id} |->
                                IF sid = stream_id THEN data ELSE loaded[sid]]
    /\ UNCHANGED <<PACKET_SIZE, pc, packet, remaining_space, wire, rx, files,
                   handed, placed>>
    /\ UNCHANGED <<halfVars, codecVars, tableVars, senderVars, dispatchVars>>

\* send_packets, up to its while loop: _send_packet_size.  The application
\* calls send_packets once it has given data to every stream it got.
SendPacketSize ==
    /\ pc[Snd] = "setup"
    /\ DOMAIN conn[Snd].streams = DOMAIN loaded
    /\ conn' = [conn EXCEPT ![Snd].packet_size = PACKET_SIZE]
    /\ wire' = Append(wire, ToBytes(PACKET_SIZE, PACKET_SIZE_BYTES))
    /\ pc' = [pc EXCEPT ![Snd] = "send_packets"]
    /\ UNCHANGED <<PACKET_SIZE, packet, remaining_space, rx, files, loaded,
                   handed, placed>>
    /\ UNCHANGED <<halfVars, codecVars, tableVars, senderVars, dispatchVars>>

\* one more turn of the while loop of send_packets: _create_packet, up to
\* its own while loop; at most limit packets are built
CreatePacket(limit) ==
    /\ pc[Snd] = "send_packets"
    /\ conn[Snd].active_streams_ids # <<>>
    /\ conn[Snd].sent_packets_counter < limit
    /\ LET generated == generate_streams_frames(conn[Snd], PACKET_SIZE)
           space == generated.packet_size - SIZEOF_PACKET_OBJECT
       IN  /\ conn' = [conn EXCEPT ![Snd] = generated]
           /\ packet' = Packet(IF generated.connection_id = 0 THEN 1 ELSE 0,
                               generated.sent_packets_counter)
           /\ remaining_space' = space
           /\ pc' = [pc EXCEPT ![Snd] = IF space > 0 THEN "create_packet"
                                        ELSE "packet_built"]
    /\ UNCHANGED <<PACKET_SIZE, wire, rx, files, loaded, handed, placed>>
    /\ UNCHANGED <<halfVars, codecVars, tableVars, senderVars, dispatchVars>>

BeginPacket == CreatePacket(MaxPackets)

\* an end of the iteration that leaves the frame pending without leaving
\* the while loop
PlaceFrameGoingOn(cn, frame) ==
    LET size_of_frame == getsizeof(encode(frame))
    IN  IF size_of_frame <= remaining_space
        THEN /\ conn' = [conn EXCEPT ![Snd] = cn]
             /\ packet' = add_frame(packet, frame)
             /\ placed' = Append(placed, [packet_number |-> packet.packet_number,
                                          frame |-> frame])
             /\ remaining_space' = remaining_space - size_of_frame
             /\ pc' = [pc EXCEPT ![Snd] =
                          IF remaining_space - size_of_frame > 0
                          THEN "create_packet" ELSE "packet_built"]
        ELSE /\ conn' = [conn EXCEPT ![Snd] =
                            [cn EXCEPT !.pending_frames = Append(@, frame)]]
             /\ UNCHANGED <<pc, packet, placed, remaining_space>>

\* the end of one iteration of the while loop of _create_packet, for the
\* frame it got: the frame is added to the packet or left pending
PlaceFrame(cn, frame) ==
    LET size_of_frame == getsizeof(encode(frame))
    IN  IF size_of_frame <= remaining_space
        THEN /\ conn' = [conn EXCEPT ![Snd] = cn]
             /\ packet' = add_frame(packet, frame)
             /\ placed' = Append(placed, [packet_number |-> packet.packet_number,
                                          frame |-> frame])
             /\ remaining_space' = remaining_space - size_of_frame
             /\ pc' = [pc EXCEPT ![Snd] =
                          IF remaining_space - size_of_frame > 0
                          THEN "create_packet" ELSE "packet_built"]
        ELSE /\ conn' = [conn EXCEPT ![Snd] =
                            [cn EXCEPT !.pending_frames = Append(@, frame)]]
             /\ pc' = [pc EXCEPT ![Snd] = "packet_built"]
             /\ UNCHANGED <<packet, placed, remaining_space>>

\* an iteration of the while loop that finds a pending frame
PopPending ==
    /\ pc[Snd] = "create_packet"
    /\ conn[Snd].pending_frames # <<>>
    /\ PlaceFrame([conn[Snd] EXCEPT !.pending_frames = Tail(@)],
                  Head(conn[Snd].pending_frames))
    /\ UNCHANGED <<PACKET_SIZE, wire, rx, files, loaded, handed>>
    /\ UNCHANGED <<halfVars, codecVars, tableVars, senderVars, dispatchVars>>

\* an iteration that asks the stream random.choice picked for its next frame;
\* frame.encode() raises AttributeError when the stream returned None
SendNextFrame(stream_id) ==
    /\ pc[Snd] = "create_packet"
    /\ conn[Snd].pending_frames = <<>>
    /\ InList(conn[Snd].active_streams_ids, stream_id)
    /\ LET res == send_next_frame(conn[Snd].streams[stream_id].sender)
           asked == [conn[Snd] EXCEPT !.streams[stream_id].sender = res.half]
           after == IF is_finished(asked.streams[stream_id])
                    THEN remove_stream(asked, stream_id)
                    ELSE asked
       IN  /\ handed' = handed \o res.frame
           /\ IF res.frame = None
              THEN /\ conn' = [conn EXCEPT ![Snd] = after]
                   /\ pc' = [pc EXCEPT ![Snd] = "raised"]
                   /\ UNCHANGED <<packet, placed, remaining_space>>
              ELSE PlaceFrame(after, res.frame[1])
    /\ UNCHANGED <<PACKET_SIZE, wire, rx, files, loaded>>
    /\ UNCHANGED <<halfVars, codecVars, tableVars, senderVars, dispatchVars>>

\* an iteration that finds no pending frame and no active stream
NoActiveStream ==
    /\ pc[Snd] = "create_packet"
    /\ conn[Snd].pending_frames = <<>>
    /\ conn[Snd].active_streams_ids = <<>>
    /\ conn' = [conn EXCEPT ![Snd].idle = FALSE]
    /\ pc' = [pc EXCEPT ![Snd] = "packet_built"]
    /\ UNCHANGED <<PACKET_SIZE, packet, remaining_space, wire, rx, files,
                   loaded, handed, placed>>
    /\ UNCHANGED <<halfVars, codecVars, tableVars, senderVars, dispatchVars>>

\* a send that leaves the packets-sent counter as it is
SendPacketKeepingCounter ==
    /\ pc[Snd] = "packet_built"
    /\ wire' = Append(wire, pack(packet))
    /\ pc' = [pc EXCEPT ![Snd] = "send_packets"]
    /\ UNCHANGED <<PACKET_SIZE, conn, packet, remaining_space, rx, files,
                   loaded, handed, placed>>
    /\ UNCHANGED <<halfVars, codecVars, tableVars, senderVars, dispatchVars>>

\* the end of _create_packet and _send_packet(packet.pack())
SendPacket ==
    /\ pc[Snd] = "packet_built"
    /\ conn' = [conn EXCEPT ![Snd].sent_packets_counter = @ + 1]
    /\ wire' = Append(wire, pack(packet))
    /\ pc' = [pc EXCEPT ![Snd] = "send_packets"]
    /\ UNCHANGED <<PACKET_SIZE, packet, remaining_space, rx, files, loaded,
                   handed, placed>>
    /\ UNCHANGED <<halfVars, codecVars, tableVars, senderVars, dispatchVars>>

\* send_packets leaves its loop: _close_connection
CloseSender ==
    /\ pc[Snd] = "send_packets"
    /\ conn[Snd].active_streams_ids = <<>>
    /\ conn' = [conn EXCEPT ![Snd] = close_connection(@)]
    /\ pc' = [pc EXCEPT ![Snd] = "returned"]
    /\ UNCHANGED <<PACKET_SIZE, packet, remaining_space, wire, rx, files,
                   loaded, handed, placed>>
    /\ UNCHANGED <<halfVars, codecVars, tableVars, senderVars, dispatchVars>>

(***************************************************************************)
(* The receiving process: receive_packets.                                 *)
(***************************************************************************)
SenderDone == pc[Snd] \in {"returned", "raised"}

\* _receive_packet while _packet_size is 0: recvfrom(PACKET_SIZE_BYTES)
ReceivePacketSize ==
    /\ pc[Rcv] = "receive_packets"
    /\ conn[Rcv].packet_size = 0
    /\ rx < Len(wire)
    /\ conn' = [conn EXCEPT
                  ![Rcv].packet_size =
                      FromBytes(Slice(wire[rx + 1], 0, PACKET_SIZE_BYTES)),
                  ![Rcv].received_packets_counter = @ + 1]
    /\ rx' = rx + 1
    /\ UNCHANGED <<PACKET_SIZE, pc, packet, remaining_space, wire, files,
                   loaded, handed, placed>>
    /\ UNCHANGED <<halfVars, codecVars, tableVars, senderVars, dispatchVars>>

\* _receive_packet afterwards: recvfrom(_packet_size), the frames are handled,
\* and the connection is closed when no stream is active
ReceivePacket ==
    /\ pc[Rcv] = "receive_packets"
    /\ conn[Rcv].packet_size # 0
    /\ rx < Len(wire)
    /\ LET res == handle_received_packet(
                      conn[Rcv], files,
                      Slice(wire[rx + 1], 0, conn[Rcv].packet_size))
           empty == res.conn.active_streams_ids = <<>>
           counted == [res.conn EXCEPT
                         !.received_packets_counter =
                             @ + (IF empty THEN 2 ELSE 1)]
       IN  /\ conn' = [conn EXCEPT ![Rcv] = IF empty THEN close_connection(counted)
                                            ELSE counted]
           /\ files' = res.files
           /\ pc' = [pc EXCEPT ![Rcv] = IF empty THEN "returned" ELSE @]
    /\ rx' = rx + 1
    /\ UNCHANGED <<PACKET_SIZE, packet, remaining_space, wire, loaded, handed,
                   placed>>
    /\ UNCHANGED <<halfVars, codecVars, tableVars, senderVars, dispatchVars>>

\* recvfrom times out: no datagram is left and none will come (the sending
\* process does not pause for TIMEOUT seconds while it runs)
Timeout ==
    /\ pc[Rcv] = "receive_packets"
    /\ rx = Len(wire)
    /\ SenderDone
    /\ conn' = [conn EXCEPT ![Rcv] = close_connection(@)]
    /\ pc' = [pc EXCEPT ![Rcv] = "returned"]
    /\ UNCHANGED <<PACKET_SIZE, packet, remaining_space, wire, rx, files,
                   loaded, handed, placed>>
    /\ UNCHANGED <<halfVars, codecVars, tableVars, senderVars, dispatchVars>>

Next ==
    \/ \E initiated_by \in {0, 1}, direction \in {0, 1} :
          GetStream(initiated_by, direction)
    \/ \E stream_id \in DOMAIN conn[Snd].streams, n \in LoadLengths :
          AddDataToStream(stream_id, n)
    \/ SendPacketSize
    \/ BeginPacket
    \/ PopPending
    \/ \E stream_id \in DOMAIN conn[Snd].streams : SendNextFrame(stream_id)
    \/ NoActiveStream
    \/ SendPacket
    \/ CloseSender
    \/ ReceivePacketSize
    \/ ReceivePacket
    \/ Timeout

Spec == Init /\ [][Next]_vars

\* packets the sender builds in SpecLive
MaxLivePackets == 2

LiveBeginPacket == CreatePacket(MaxLivePackets)

NextLive ==
    \/ \E initiated_by \in {0, 1}, direction \in {0, 1} :
          GetStream(initiated_by, direction)
    \/ \E stream_id \in DOMAIN conn[Snd].streams, n \in LoadLengths :
          AddDataToStream(stream_id, n)
    \/ SendPacketSize
    \/ LiveBeginPacket
    \/ PopPending
    \/ \E stream_id \in DOMAIN conn[Snd].streams : SendNextFrame(stream_id)
    \/ NoActiveStream
    \/ SendPacket
    \/ CloseSender
    \/ ReceivePacketSize
    \/ ReceivePacket
    \/ Timeout

\* recvfrom returns after TIMEOUT seconds at the latest: the receiving
\* process is not held in it for ever
SpecLive == Init /\ [][NextLive]_vars /\ WF_vars(Timeout)

\* packets the sender builds in SpecSend
MaxSendPackets == 5

\* the application gets a stream for the local role, as sender.py does
LocalGetStream(direction) == GetStream(CONNECTION_ID_SENDER, direction)

SendBeginPacket == CreatePacket(MaxSendPackets)

\* the steps of send_packets after the size datagram
SendLoop ==
    \/ SendBeginPacket
    \/ PopPending
    \/ \E stream_id \in DOMAIN conn[Snd].streams : SendNextFrame(stream_id)
    \/ NoActiveStream
    \/ SendPacket
    \/ CloseSender

NextSend ==
    \/ \E direction \in {0, 1} : LocalGetStream(direction)
    \/ \E stream_id \in DOMAIN conn[Snd].streams, n \in LoadLengths :
          AddDataToStream(stream_id, n)
    \/ SendPacketSize
    \/ SendLoop

\* send_packets is a sequential loop of a running process: while it has a
\* next step, it takes one (whichever stream random.choice picks)
SpecSend == Init /\ [][NextSend]_vars /\ WF_vars(SendLoop)

(***************************************************************************)
(* A sender half and a receiver half driven directly, as a caller of       *)
(* stream.py may: data is added, frames are generated and handed out, and  *)
(* then the frames handed out are delivered to the receiver half, each at  *)
(* most once and in any order, and the receiver's data is read.            *)
(***************************************************************************)
\* the bytes a caller adds: each byte is its position in the stream
NextBytes(from, n) == [i \in 1..n |-> from + i]

\* add_data_to_buffer(data) on the sender half
H_AddData(n) ==
    /\ h_phase = "send"
    /\ Len(h_snd.buffer) + n <= MaxLen
    /\ h_snd' = add_data_to_buffer(h_snd, NextBytes(Len(h_snd.buffer), n)).half
    /\ UNCHANGED <<h_rcv, h_phase, h_pre, h_calls, h_out, h_in, h_late, h_reads>>
    /\ UNCHANGED <<connVars, codecVars, tableVars, senderVars, dispatchVars>>

\* generate_stream_frames(max_size) on the sender half
H_Generate(max_size) ==
    /\ h_phase = "send"
    /\ LET after == generate_stream_frames(h_snd, max_size)
       IN  /\ Len(h_out) + Len(after.stream_frames) <= MaxFrames
           /\ h_snd' = after
    /\ h_pre' = [sender |-> h_snd, max_size |-> max_size]
    /\ h_calls' = h_calls + 1
    /\ UNCHANGED <<h_rcv, h_phase, h_out, h_in, h_late, h_reads>>
    /\ UNCHANGED <<connVars, codecVars, tableVars, senderVars, dispatchVars>>

\* send_next_frame() on the sender half
H_SendNext ==
    /\ h_phase = "send"
    /\ LET res == send_next_frame(h_snd)
       IN  /\ h_snd' = res.half
           /\ h_out' = h_out \o res.frame
    /\ UNCHANGED <<h_rcv, h_phase, h_pre, h_calls, h_in, h_late, h_reads>>
    /\ UNCHANGED <<connVars, codecVars, tableVars, senderVars, dispatchVars>>

\* the caller turns to the receiver half
H_Handover ==
    /\ h_phase = "send"
    /\ h_phase' = "recv"
    /\ UNCHANGED <<h_snd, h_rcv, h_pre, h_calls, h_out, h_in, h_late, h_reads>>
    /\ UNCHANGED <<connVars, codecVars, tableVars, senderVars, dispatchVars>>

\* stream_frame_recvd(frame) on the receiver half, for the i-th frame the
\* sender half handed out
H_Deliver(i) ==
    /\ h_phase = "recv"
    /\ i \in (1..Len(h_out)) \ h_in
    /\ h_rcv' = stream_frame_recvd(h_rcv, h_out[i])
    /\ h_in' = h_in \cup {i}
    /\ h_late' = (h_late \/ \E j \in h_in : h_out[j].fin)
    /\ UNCHANGED <<h_snd, h_phase, h_pre, h_calls, h_out, h_reads>>
    /\ UNCHANGED <<connVars, codecVars, tableVars, senderVars, dispatchVars>>

\* get_data_from_buffer() on the receiver half
H_GetData ==
    /\ h_phase = "recv"
    /\ Len(h_reads) < MaxReads
    /\ LET res == get_data_from_buffer(h_rcv)
       IN  /\ h_rcv' = res.half
           /\ h_reads' = Append(h_reads, [data |-> res.data,
                                          raised |-> res.raised,
                                          delivered |-> Cardinality(h_in)])
    /\ UNCHANGED <<h_snd, h_phase, h_pre, h_calls, h_out, h_in, h_late>>
    /\ UNCHANGED <<connVars, codecVars, tableVars, senderVars, dispatchVars>>

NextStream ==
    \/ \E n \in 1..MaxLen : H_AddData(n)
    \/ \E max_size \in 1..MaxLen : H_Generate(max_size)
    \/ H_SendNext
    \/ H_Handover
    \/ \E i \in 1..MaxFrames : H_Deliver(i)
    \/ H_GetData

SpecStream == Init /\ [][NextStream]_vars

(***************************************************************************)
(* The sending process alone, with a long stream and a short one loaded:   *)
(* the run in which the choice of the stream matters for many packets.     *)
(***************************************************************************)
FairConnection ==
    LET long == get_stream(QuicConnection(Snd), 0, 0)
        short == get_stream(long.conn, 0, 1)
        long_data == Payload(long.stream_id, 0, (MaxFairLoad * FrameBudget) \div 4)
        short_data == Payload(short.stream_id, 0, FrameBudget)
        given == add_data_to_stream(short.conn, long.stream_id, long_data).conn
    IN  [conn |-> add_data_to_stream(given, short.stream_id, short_data).conn,
         loaded |-> [sid \in {long.stream_id, short.stream_id} |->
                       IF sid = long.stream_id THEN long_data ELSE short_data]]

FairInit ==
    /\ PACKET_SIZE \in PacketSizes
    /\ conn = [c \in {Snd, Rcv} |-> IF c = Snd THEN FairConnection.conn
                                    ELSE QuicConnection(c)]
    /\ loaded = FairConnection.loaded
    /\ pc = [c \in {Snd, Rcv} |-> IF c = Snd THEN "setup" ELSE "receive_packets"]
    /\ packet = Packet(0, 0)
    /\ remaining_space = 0
    /\ wire = <<>>
    /\ rx = 0
    /\ files = <<>>
    /\ handed = <<>>
    /\ placed = <<>>
    /\ HalfInit
    /\ CodecInit
    /\ TableInit
    /\ SenderInit
    /\ DispatchInit

FairBeginPacket == CreatePacket(MaxFairPackets)

NextFair ==
    \/ SendPacketSize
    \/ FairBeginPacket
    \/ PopPending
    \/ \E stream_id \in DOMAIN conn[Snd].streams : SendNextFrame(stream_id)
    \/ NoActiveStream
    \/ SendPacket
    \/ CloseSender

SpecFair == FairInit /\ [][NextFair]_vars

(***************************************************************************)
(* The codecs driven directly: a caller builds a Packet of frames, packs   *)
(* it, and unpacks the bytes or parses its encoded frames.                 *)
(***************************************************************************)
\* frames in the packet the caller builds
MaxPayload == 2

\* The frames the caller may add: every combination of offset zero or not,
\* length zero or len(data), fin, and data empty or not.
CodecFrames ==
    {f \in [stream_id : {5}, offset : {0, 3}, length : {0, 1},
            fin : BOOLEAN, data : {<<>>, <<7>>}] :
        f.length \in {0, Len(f.data)}}

\* The packet numbers the caller may use: 0, 1 and 2 bytes long.
CodecPacketNumbers == {0, 1, 300}

\* Packet(destination_connection_id, packet_number)
C_NewPacket(destination_connection_id, packet_number) ==
    /\ c_pc = "idle"
    /\ c_pc' = "build"
    /\ c_packet' = Packet(destination_connection_id, packet_number)
    /\ UNCHANGED <<c_bytes, c_unpacked, c_parsed>>
    /\ UNCHANGED <<connVars, halfVars, tableVars, senderVars, dispatchVars>>

\* packet.add_frame(frame)
C_AddFrame(frame) ==
    /\ c_pc = "build"
    /\ Len(c_packet.payload) < MaxPayload
    /\ c_packet' = add_frame(c_packet, frame)
    /\ UNCHANGED <<c_pc, c_bytes, c_unpacked, c_parsed>>
    /\ UNCHANGED <<connVars, halfVars, tableVars, senderVars, dispatchVars>>

\* packet.pack()
C_Pack ==
    /\ c_pc = "build"
    /\ c_pc' = "packed"
    /\ c_bytes' = pack(c_packet)
    /\ UNCHANGED <<c_packet, c_unpacked, c_parsed>>
    /\ UNCHANGED <<connVars, halfVars, tableVars, senderVars, dispatchVars>>

\* Packet.unpack(packet_bytes)
C_Unpack ==
    /\ c_pc = "packed"
    /\ c_unpacked = None
    /\ c_unpacked' = Some(unpack(c_bytes))
    /\ UNCHANGED <<c_pc, c_packet, c_bytes, c_parsed>>
    /\ UNCHANGED <<connVars, halfVars, tableVars, senderVars, dispatchVars>>

\* Packet.get_frames_from_payload_bytes of the encoded frames, concatenated
C_Parse ==
    /\ c_pc = "packed"
    /\ c_parsed = None
    /\ c_parsed' = Some(get_frames_from_payload_bytes(EncodeAll(c_packet.payload)))
    /\ UNCHANGED <<c_pc, c_packet, c_bytes, c_unpacked>>
    /\ UNCHANGED <<connVars, halfVars, tableVars, senderVars, dispatchVars>>

NextCodec ==
    \/ \E destination_connection_id \in {Snd, Rcv},
          packet_number \in CodecPacketNumbers :
          C_NewPacket(destination_connection_id, packet_number)
    \/ \E frame \in CodecFrames : C_AddFrame(frame)
    \/ C_Pack
    \/ C_Unpack
    \/ C_Parse

SpecCodec == Init /\ [][NextCodec]_vars

(***************************************************************************)
(* One connection object whose stream table is driven by the operations   *)
(* that create and remove streams: get_stream, data written to a stream    *)
(* id, frames generated and handed out, and frames received for a stream   *)
(* id.                                                                     *)
(***************************************************************************)
\* streams the connection creates
MaxTableStreams == 2

\* get_stream calls on the connection
MaxGets == 2

\* frames received for a stream of the connection
MaxTableFrames == 1

\* the stream ids a caller or a received frame names: 1 (bit 0 only), 3 (both
\* bits) and 4 (the id get_stream(0, 0) generates at counter 1)
TableIds == {1, 3, 4}

\* the stream id is in the table, or the connection may create one more
MayCreate(stream_id) ==
    \/ is_stream_id_in_dict(t_conn, stream_id)
    \/ t_conn.streams_counter < MaxTableStreams

\* get_stream(initiated_by, direction)
T_GetStream(initiated_by, direction) ==
    /\ Len(t_got) < MaxGets
    /\ MayCreate(stream_id_generator(t_conn, initiated_by, direction))
    /\ LET res == get_stream(t_conn, initiated_by, direction)
       IN  /\ t_conn' = res.conn
           /\ t_got' = Append(t_got, [initiated_by |-> initiated_by,
                                      direction |-> direction,
                                      counter |-> t_conn.streams_counter,
                                      stream_id |-> res.stream_id])
    /\ UNCHANGED t_last
    /\ UNCHANGED <<connVars, halfVars, codecVars, senderVars, dispatchVars>>

\* _add_data_to_stream(stream_id, data), as add_file_to_stream calls it, once
\* for a stream
T_AddData(stream_id) ==
    /\ MayCreate(stream_id)
    /\ is_stream_id_in_dict(t_conn, stream_id)
       => t_conn.streams[stream_id].sender.buffer = <<>>
    /\ t_conn' = add_data_to_stream(t_conn, stream_id, <<7>>).conn
    /\ UNCHANGED <<t_got, t_last>>
    /\ UNCHANGED <<connVars, halfVars, codecVars, senderVars, dispatchVars>>

\* _generate_streams_frames()
T_Generate ==
    /\ \A i \in 1..Len(t_conn.active_streams_ids) :
          LET sid == t_conn.active_streams_ids[i]
          IN  is_stream_id_in_dict(t_conn, sid)
              => t_conn.streams[sid].sender.stream_frames = <<>>
    /\ \A i \in 1..Len(t_conn.active_streams_ids) :
          MayCreate(t_conn.active_streams_ids[i])
    /\ t_conn.active_streams_ids # <<>>
    /\ t_conn' = generate_streams_frames(t_conn, MIN_PACKET_SIZE)
    /\ UNCHANGED <<t_got, t_last>>
    /\ UNCHANGED <<connVars, halfVars, codecVars, senderVars, dispatchVars>>

\* the stream part of one iteration of _create_packet: an active stream is
\* asked for its next frame and removed when it is finished
T_SendNext(stream_id) ==
    /\ InList(t_conn.active_streams_ids, stream_id)
    /\ is_stream_id_in_dict(t_conn, stream_id)
    /\ t_conn.streams[stream_id].sender.stream_frames # <<>>
    /\ LET res == send_next_frame(t_conn.streams[stream_id].sender)
           asked == [t_conn EXCEPT !.streams[stream_id].sender = res.half]
           stream == asked.streams[stream_id]
       IN  /\ t_conn' = IF is_finished(stream)
                        THEN remove_stream(asked, stream_id) ELSE asked
           /\ t_last' = [op |-> "send_next_frame", stream |-> stream,
                         fin |-> res.frame[1].fin,
                         finished |-> is_finished(stream)]
    /\ UNCHANGED t_got
    /\ UNCHANGED <<connVars, halfVars, codecVars, senderVars, dispatchVars>>

\* one iteration of the for loop of _handle_received_packet, for a frame of
\* a received packet
T_Receive(frame) ==
    /\ MayCreate(frame.stream_id)
    /\ is_stream_id_in_dict(t_conn, frame.stream_id)
       => t_conn.streams[frame.stream_id].receiver.curr_offset < MaxTableFrames
    /\ LET active == add_active_stream_id(t_conn, frame.stream_id)
           found == get_stream_by_id(active, frame.stream_id)
           stream == [found.streams[frame.stream_id] EXCEPT
                         !.receiver = stream_frame_recvd(@, frame)]
       IN  /\ t_conn' = HandleFrame(t_conn, <<>>, frame).conn
           /\ t_last' = [op |-> "receive_frame", stream |-> stream,
                         fin |-> frame.fin,
                         finished |-> is_finished(stream)]
    /\ UNCHANGED t_got
    /\ UNCHANGED <<connVars, halfVars, codecVars, senderVars, dispatchVars>>

NextTable ==
    \/ \E initiated_by \in {0, 1}, direction \in {0, 1} :
          T_GetStream(initiated_by, direction)
    \/ \E stream_id \in TableIds : T_AddData(stream_id)
    \/ T_Generate
    \/ \E stream_id \in TableIds : T_SendNext(stream_id)
    \/ \E stream_id \in TableIds, fin \in BOOLEAN :
          T_Receive(FrameStream(stream_id, 0, 1, fin, <<9>>))

SpecTable == Init /\ [][NextTable]_vars

(***************************************************************************)
(* A sender half on its own, with its add_data_to_buffer calls kept.       *)
(***************************************************************************)

\* add_data_to_buffer(data) on the sender half, in whatever state it is
S_AddData(n) ==
    /\ Len(s_snd.buffer) + n <= MaxLen
    /\ LET data == NextBytes(Len(s_snd.buffer), n)
           res == add_data_to_buffer(s_snd, data)
       IN  /\ s_snd' = res.half
           /\ s_add' = [called |-> TRUE, sender |-> s_snd, data |-> data,
                        raised |-> res.raised]
    /\ UNCHANGED <<connVars, halfVars, codecVars, tableVars, dispatchVars>>

\* generate_stream_frames(max_size) on the sender half
S_Generate(max_size) ==
    /\ LET after == generate_stream_frames(s_snd, max_size)
       IN  /\ Len(after.stream_frames) <= MaxFrames
           /\ after.curr_offset <= MaxLen
           /\ s_snd' = after
    /\ UNCHANGED s_add
    /\ UNCHANGED <<connVars, halfVars, codecVars, tableVars, dispatchVars>>

\* send_next_frame() on the sender half
S_SendNext ==
    /\ s_snd.stream_frames # <<>>
    /\ s_snd' = send_next_frame(s_snd).half
    /\ UNCHANGED s_add
    /\ UNCHANGED <<connVars, halfVars, codecVars, tableVars, dispatchVars>>

NextSender ==
    \/ \E n \in 1..MaxLen : S_AddData(n)
    \/ \E max_size \in 1..MaxLen : S_Generate(max_size)
    \/ S_SendNext

SpecSender == Init /\ [][NextSender]_vars

(***************************************************************************)
(* A receiving connection on its own: the datagrams it is handed are       *)
(* packets of frames, for one of which open() may fail, or malformed       *)
(* bytes.                                                                  *)
(***************************************************************************)
\* datagrams the connection handles
MaxDispatchPackets == 2

DispatchIds == {0, 3}

DispatchFrames ==
    {FrameStream(stream_id, 0, 1, fin, <<9>>) :
        stream_id \in DispatchIds, fin \in BOOLEAN}

\* packets of two frames
DispatchPayloads ==
    {<<first, second>> : first \in DispatchFrames, second \in DispatchFrames}

\* a packet header followed by bytes that are not an encoded frame: the first
\* bytes of a frame header; a frame whose LEN field says 9 and that holds 1
\* byte; a frame whose type byte is not a STREAM type (0x08..0x0f)
MalformedPayloads ==
    { <<MIN_TYPE_FIELD + LEN_BIT, 0, 0, 5>>,
      <<MIN_TYPE_FIELD + LEN_BIT>> \o ToBytes(3, STREAM_ID_LENGTH)
          \o ToBytes(9, LEN_LENGTH) \o <<7>>,
      <<64>> \o ToBytes(3, STREAM_ID_LENGTH) \o <<7>> }

\* _receive_packet for a datagram, with _packet_size set
D_Receive(bytes, fail, malformed) ==
    /\ d_pc = "receive_packets"
    /\ d_conn.received_packets_counter <= MaxDispatchPackets
    /\ LET res == HandleFramesEnv(d_conn, d_files,
                                  unpack(Slice(bytes, 0, d_conn.packet_size)).payload,
                                  fail)
           empty == res.conn.active_streams_ids = <<>>
           counted == [res.conn EXCEPT
                         !.received_packets_counter =
                             @ + (IF empty THEN 2 ELSE 1)]
       IN  /\ d_conn' = IF empty THEN close_connection(counted) ELSE counted
           /\ d_files' = res.files
           /\ d_pc' = IF empty THEN "returned" ELSE d_pc
    /\ d_last' = [called |-> TRUE, conn |-> d_conn, files |-> d_files,
                  bytes |-> bytes, fail |-> fail, malformed |-> malformed]
    /\ UNCHANGED <<connVars, halfVars, codecVars, tableVars, senderVars>>

\* a packet of frames arrives
D_ReceivePacket(payload, fail) ==
    D_Receive(pack([Packet(d_conn.connection_id,
                           d_conn.received_packets_counter)
                       EXCEPT !.payload = payload]),
              fail, FALSE)

\* malformed bytes arrive
D_ReceiveMalformed(payload) ==
    D_Receive(pack(Packet(d_conn.connection_id,
                          d_conn.received_packets_counter)) \o payload,
              0, TRUE)

NextDispatch ==
    \/ \E payload \in DispatchPayloads :
          \E fail \in 0..Len(payload) : D_ReceivePacket(payload, fail)
    \/ \E payload \in MalformedPayloads : D_ReceiveMalformed(payload)

SpecDispatch == Init /\ [][NextDispatch]_vars

(***************************************************************************)
(* Properties.                                                             *)
(***************************************************************************)
RECURSIVE JoinData(_)
\* the data of the frames, concatenated in their order
JoinData(frames) ==
    IF frames = <<>> THEN <<>>
    ELSE Head(frames).data \o JoinData(Tail(frames))

\* the frames one generate_stream_frames(max_size) call appends
Appended(sender, max_size) ==
    SubSeq(generate_stream_frames(sender, max_size).stream_frames,
           Len(sender.stream_frames) + 1,
           Len(generate_stream_frames(sender, max_size).stream_frames))

\* the sender half made one generate_stream_frames call and every frame of
\* it was handed out by send_next_frame
FullRun == h_calls = 1 /\ h_snd.stream_frames = <<>>

\* the frames added to packets that were sent, in the order of the wire
OnWire == SelectSeq(placed, LAMBDA p :
                      p.packet_number < conn[Snd].sent_packets_counter)

\* C1: once both processes have returned, the receiver has written, for
\* every stream the sender loaded before send_packets, a file holding exactly
\* the bytes loaded (neither side closes before every stream was delivered).
C1_EveryStreamWritten ==
    (pc[Snd] = "returned" /\ pc[Rcv] = "returned")
    => \A sid \in DOMAIN loaded :
          \E i \in 1..Len(files) :
             files[i] = [stream_id |-> sid, data |-> loaded[sid]]

\* C2: when the frames of a full run of the sender half have all been
\* delivered to the receiver half, in whatever order, the first
\* get_data_from_buffer call made after that returns the sender's buffer, and
\* a second call raises.
C2_AnyOrderReassembles ==
    (FullRun /\ Len(h_reads) >= 1 /\ h_reads[1].delivered = Len(h_out))
    => /\ ~h_reads[1].raised
       /\ h_reads[1].data = h_snd.buffer
       /\ Len(h_reads) >= 2 => h_reads[2].raised

\* C3: after one generate_stream_frames call and send_next_frame calls until
\* no frame is left, exactly one frame handed out carries FIN, it is the last
\* one, and the data of the frames in the order handed out is the buffer.
C3_OneFinLast ==
    FullRun
    => /\ Len(h_out) >= 1
       /\ \A i \in 1..Len(h_out) : h_out[i].fin <=> i = Len(h_out)
       /\ JoinData(h_out) = h_snd.buffer

\* a full run that handed out several frames of a buffer that is not empty
C3_Witness ==
    FullRun /\ Len(h_out) >= 3 /\ Len(h_snd.buffer) >= 2

\* C4: over one generate_stream_frames call and the send_next_frame calls
\* after it, the sender half is in READY until the first frame is handed
\* out (READY is left only for SEND, on the first frame handed out), and it
\* is in DATA_SENT only when it came there from SEND.
C4_ReadyUntilFirstFrame ==
    (h_calls = 1 /\ h_pre.sender.state = READY)
    => /\ Len(h_out) = 0 => h_snd.state = READY
       /\ h_snd.state = DATA_SENT => h_pre.sender.state = SEND

\* C5: generate_stream_frames(max_size) on a sender half with remaining
\* bytes not yet in frames appends floor(remaining / max_size) frames without
\* FIN, each of max_size data bytes, at offsets max_size apart from the
\* current offset on, and then one FIN frame with the rest of the buffer.
C5_ChunksThenFin ==
    h_calls >= 1
    => LET sender == h_pre.sender
           max_size == h_pre.max_size
           new == Appended(sender, max_size)
           remaining == Len(sender.buffer) - sender.curr_offset
           chunks == remaining \div max_size
       IN  remaining >= 0
           => /\ Len(new) = chunks + 1
              /\ \A i \in 1..chunks :
                    /\ ~new[i].fin
                    /\ Len(new[i].data) = max_size
                    /\ new[i].offset = sender.curr_offset + (i - 1) * max_size
              /\ new[chunks + 1].fin
              /\ new[chunks + 1].data
                   = SliceFrom(sender.buffer,
                               sender.curr_offset + chunks * max_size)

\* C6: every frame generate_stream_frames(max_size) appends, the FIN frame
\* too, carries at most max_size data bytes.
C6_FrameWithinMaxSize ==
    h_calls >= 1
    => \A i \in 1..Len(Appended(h_pre.sender, h_pre.max_size)) :
          Len(Appended(h_pre.sender, h_pre.max_size)[i].data) <= h_pre.max_size

\* C7: in the send loop, send_next_frame hands out at most one FIN frame of
\* a stream, and no frame of the stream after its FIN frame.
C7_NothingAfterFin ==
    \A i \in 1..Len(handed), j \in 1..Len(handed) :
       (i < j /\ handed[i].stream_id = handed[j].stream_id) => ~handed[i].fin

\* C8: the frames of a stream in the packets sent are in strictly increasing
\* offset order, and its FIN frame is the last of them.
C8_WireOrder ==
    \A i \in 1..Len(OnWire), j \in 1..Len(OnWire) :
       (i < j /\ OnWire[i].frame.stream_id = OnWire[j].frame.stream_id)
       => /\ OnWire[i].frame.offset < OnWire[j].frame.offset
          /\ ~OnWire[i].frame.fin

\* C9: a stream that is active has a frame in one of the last
\* FRAMES_IN_PACKET * (number of active streams) packets sent, once that
\* many packets were sent.
C9_NoStarvation ==
    LET window == FRAMES_IN_PACKET * Len(conn[Snd].active_streams_ids)
        sent == conn[Snd].sent_packets_counter
    IN  \A sid \in DOMAIN loaded :
           (InList(conn[Snd].active_streams_ids, sid) /\ sent >= window)
           => \E i \in 1..Len(placed) :
                 /\ placed[i].frame.stream_id = sid
                 /\ placed[i].packet_number >= sent - window
                 /\ placed[i].packet_number < sent

\* C10: the encoded frames of the packet _create_packet builds take at most
\* the negotiated packet size less the header byte, the connection id and
\* the packet number bytes, and no data datagram sent is longer than the
\* negotiated packet size.
C10_PacketFits ==
    /\ pc[Snd] \in {"create_packet", "packet_built"}
       => Len(EncodeAll(packet.payload))
             <= conn[Snd].packet_size - HEADER_LENGTH - DEST_CONNECTION_ID_LENGTH
                - (bit_length(packet.packet_number) + 7) \div 8
    /\ \A i \in 2..Len(wire) : Len(wire[i]) <= conn[Snd].packet_size

\* a data datagram was sent that holds several frames
C10_Witness ==
    \E i \in 2..Len(wire) :
       /\ Len(wire[i]) > 3 * FrameBudget
       /\ Len(unpack(wire[i]).payload) >= 3

\* the length field of every frame of the packet built is len(data)
LengthsMatch ==
    \A i \in 1..Len(c_packet.payload) :
       c_packet.payload[i].length = Len(c_packet.payload[i].data)

\* C11: decoding the encoding of a frame gives the frame back in all five
\* fields, also when its offset is 0 or its length is 0.
C11_FrameRoundTrip ==
    c_pc = "packed"
    => \A i \in 1..Len(c_packet.payload) :
          decode(encode(c_packet.payload[i])) = c_packet.payload[i]

\* a packet was packed that holds a frame with offset 0 and length 0 and a
\* frame with neither 0
C11_Witness ==
    /\ c_pc = "packed"
    /\ \E i \in 1..Len(c_packet.payload) :
          /\ c_packet.payload[i].offset = 0
          /\ c_packet.payload[i].length = 0
    /\ \E i \in 1..Len(c_packet.payload) :
          /\ c_packet.payload[i].offset # 0
          /\ c_packet.payload[i].length # 0
          /\ c_packet.payload[i].fin

\* C12: unpacking a packed packet whose frames have length = len(data) gives
\* the same destination connection id, the same packet number and the same
\* frames in the same order.
C12_PacketRoundTrip ==
    (c_unpacked # None /\ LengthsMatch) => c_unpacked[1] = c_packet

\* C13: get_frames_from_payload_bytes of the concatenated encodings of
\* frames with length = len(data) returns exactly those frames in order.
C13_PayloadParse ==
    (c_parsed # None /\ LengthsMatch) => c_parsed[1] = c_packet.payload

\* C14: the id get_stream generates is (counter << 2) | (direction << 1) |
\* initiated_by, so is_uni_by_sid(id) is the direction and
\* is_s_init_by_sid(id) is the initiator.
C14_StreamIdLayout ==
    \A i \in 1..Len(t_got) :
       /\ t_got[i].stream_id
            = 4 * t_got[i].counter + 2 * t_got[i].direction + t_got[i].initiated_by
       /\ is_uni_by_sid(t_got[i].stream_id) <=> t_got[i].direction = 1
       /\ is_s_init_by_sid(t_got[i].stream_id) <=> t_got[i].initiated_by = 1

\* get_stream was called with a counter above 0 and with unequal arguments
C14_Witness ==
    \E i \in 1..Len(t_got) :
       /\ t_got[i].counter > 0
       /\ t_got[i].direction = 1
       /\ t_got[i].initiated_by = 0

\* C15: two get_stream calls of a connection with the same (direction,
\* initiator) never return the same stream id, whatever stream creations,
\* lazy creations and removals happen around them.
C15_FreshIds ==
    \A i \in 1..Len(t_got), j \in 1..Len(t_got) :
       (i < j /\ t_got[i].direction = t_got[j].direction
              /\ t_got[i].initiated_by = t_got[j].initiated_by)
       => t_got[i].stream_id # t_got[j].stream_id

\* C16: every Stream in the table of a connection is unidirectional exactly
\* when bit 1 of its id is set and server-initiated exactly when bit 0 is
\* set, and its usable halves are the ones of that id.
C16_StreamMatchesId ==
    \A sid \in DOMAIN t_conn.streams :
       LET stream == t_conn.streams[sid]
       IN  /\ stream.is_uni <=> is_uni_by_sid(sid)
           /\ stream.is_s_initiated <=> is_s_init_by_sid(sid)
           /\ stream.sender.is_usable
                <=> (~is_uni_by_sid(sid) \/ ~is_s_init_by_sid(sid))
           /\ stream.receiver.is_usable
                <=> (~is_uni_by_sid(sid) \/ is_s_init_by_sid(sid))

C18_FinishedByRole ==
    t_last.op # "none"
    => LET stream == t_last.stream
       IN  /\ t_last.finished
                <=> IF ~stream.is_uni
                    THEN \/ is_terminal_state(stream.receiver)
                         \/ is_terminal_state(stream.sender)
                    ELSE IF stream.sender.is_usable
                         THEN is_terminal_state(stream.sender)
                         ELSE is_terminal_state(stream.receiver)
           /\ (t_last.op = "send_next_frame" /\ t_last.fin /\ ~stream.is_uni)
              => t_last.finished

\* the FIN frame of a bidirectional stream was handed out
C18_Witness ==
    /\ t_last.op = "send_next_frame"
    /\ t_last.fin
    /\ ~t_last.stream.is_uni
    /\ t_last.finished

\* C19: after get_data_from_buffer() has returned the data, the receiver
\* half is in DATA_READ and stays there whatever is delivered later, and
\* that state is terminal: is_terminal_state() holds.
C19_ReadIsTerminal ==
    (\E i \in 1..Len(h_reads) : ~h_reads[i].raised)
    => /\ h_rcv.state = DATA_READ
       /\ is_terminal_state(h_rcv)

\* C20: add_data_to_buffer appends the bytes to the buffer of the sender
\* half iff its state is READY; in every other state it raises and leaves
\* buffer, offset, frame queue and state as they were.
C20_AddOnlyWhenReady ==
    s_add.called
    => LET res == add_data_to_buffer(s_add.sender, s_add.data)
       IN  /\ s_add.raised <=> s_add.sender.state # READY
           /\ res.raised = s_add.raised
           /\ res.half = IF s_add.sender.state = READY
                         THEN [s_add.sender EXCEPT
                                  !.buffer = s_add.sender.buffer \o s_add.data]
                         ELSE s_add.sender

\* an add was refused after frames were generated and one was handed out
C20_Witness ==
    /\ s_add.called
    /\ s_add.raised
    /\ s_add.sender.state = SEND
    /\ s_add.sender.stream_frames # <<>>
    /\ s_add.data # <<>>

\* C21: get_data_from_buffer() returns the contiguous buffer and moves the
\* receiver half to DATA_READ iff its state is DATA_RECVD; in every other
\* state it raises and leaves the receiver half as it was.
C21_ReadOnlyWhenRecvd ==
    [][h_reads' # h_reads
       => LET read == h_reads'[Len(h_reads')]
          IN  IF h_rcv.state = DATA_RECVD
              THEN /\ ~read.raised
                   /\ read.data = h_rcv.buffer
                   /\ h_rcv' = [h_rcv EXCEPT !.state = DATA_READ]
              ELSE /\ read.raised
                   /\ h_rcv' = h_rcv]_vars

\* a read before the FIN frame was delivered raised, the read after it
\* returned data
C21_Witness ==
    /\ Len(h_reads) = 2
    /\ h_reads[1].raised
    /\ ~h_reads[2].raised
    /\ h_reads[2].data # <<>>

\* C22: the first datagram the receiver takes, while its packet size is
\* still 0, is read as the 2-byte big-endian size and not decoded as a data
\* packet (no stream, no file and no active id comes of it); from then on
\* the receiver's packet_size is the size the sender chose, and every later
\* datagram is decoded as a data packet.
C22_SizeDatagramFirst ==
    /\ [](/\ rx = 0 => conn[Rcv].packet_size = 0
          /\ rx >= 1 => conn[Rcv].packet_size = PACKET_SIZE
          /\ rx = 1 => /\ DOMAIN conn[Rcv].streams = {}
                       /\ conn[Rcv].active_streams_ids = <<>>
                       /\ files = <<>>)
    /\ [][(rx' # rx /\ rx >= 1)
          => LET res == handle_received_packet(conn[Rcv], files, wire[rx + 1])
             IN  /\ files' = res.files
                 /\ conn'[Rcv].streams = res.conn.streams
                 /\ conn'[Rcv].active_streams_ids
                       = res.conn.active_streams_ids]_vars

\* the size datagram and a data packet that wrote a file were received
C22_Witness ==
    /\ rx >= 2
    /\ conn[Rcv].packet_size = PACKET_SIZE
    /\ files # <<>>

\* the frames added to the packet of number k, in the order they were added
FramesOfPacket(k) ==
    LET chosen == SelectSeq(placed, LAMBDA p : p.packet_number = k)
    IN  [i \in 1..Len(chosen) |-> chosen[i].frame]

\* the k-th packet the sender built (k counted from 0), as it was sent
BuiltPacket(k) ==
    [Packet(1 - conn[Snd].connection_id, k) EXCEPT !.payload = FramesOfPacket(k)]

\* the size datagram is the first datagram, there is one, and the datagrams
\* after it are the packets built, in the order built
C23_WireIsSizeThenPackets ==
    /\ Len(wire) = (IF pc[Snd] = "setup" THEN 0 ELSE 1)
                      + conn[Snd].sent_packets_counter
    /\ wire # <<>> => wire[1] = ToBytes(PACKET_SIZE, PACKET_SIZE_BYTES)
    /\ \A k \in 0..(conn[Snd].sent_packets_counter - 1) :
          wire[k + 2] = pack(BuiltPacket(k))

\* the connection is closed once, when send_packets returns with no stream
\* active, and not before
C23_ClosedOnceAtEnd ==
    /\ conn[Snd].closes = (IF pc[Snd] = "returned" THEN 1 ELSE 0)
    /\ pc[Snd] = "returned" => conn[Snd].active_streams_ids = <<>>

\* C23: send_packets emits one size datagram, before any data packet, then
\* one datagram for each packet built, in the order built, for as long as a
\* stream is active, and closes the connection once, after the last packet:
\* it does not stop sending without closing.
C23_SendPackets ==
    /\ C23_WireIsSizeThenPackets
    /\ C23_ClosedOnceAtEnd
    /\ pc[Snd] # "raised"

LastFrames == unpack(d_last.bytes).payload

\* the last datagram handled with no error
LastClean == HandleFrames(d_last.conn, d_last.files, LastFrames)

\* C25: an error raised while one frame of a received packet is dispatched
\* (here: open() fails when the finished stream is written) does not abort
\* the receive loop: every frame of the packet is still dispatched, so the
\* streams and the active list are those of a packet handled without error
\* and the files of the other frames are written, and the loop goes on to
\* the next datagram unless no stream is active.
C25_DispatchErrorsContained ==
    (d_last.called /\ ~d_last.malformed)
    => /\ d_conn.streams = LastClean.conn.streams
       /\ d_conn.active_streams_ids = LastClean.conn.active_streams_ids
       /\ d_last.fail = 0 => d_files = LastClean.files
       /\ Len(d_files) >= Len(LastClean.files) - 1
       /\ \A i \in 1..Len(d_files) :
             \E j \in 1..Len(LastClean.files) : d_files[i] = LastClean.files[j]
       /\ d_pc = "receive_packets" <=> d_conn.active_streams_ids # <<>>
       /\ d_pc = "receive_packets" <=> d_conn.idle

\* open() failed for the first frame of a packet, a FIN frame; the second
\* frame, a FIN frame, was dispatched and its file written, and the loop
\* goes on because a stream is still active
C25_Witness ==
    /\ d_last.called
    /\ ~d_last.malformed
    /\ d_last.fail = 1
    /\ Len(LastFrames) = 2
    /\ LastFrames[1].fin
    /\ LastFrames[2].fin
    /\ Len(d_files) = Len(d_last.files) + 1
    /\ Len(LastClean.files) = Len(d_last.files) + 2
    /\ d_pc = "receive_packets"

\* C26: decoding malformed bytes (a truncated frame header, a LEN value that
\* overshoots the payload, a type byte that is not a STREAM type) ends in a
\* decode error and produces no frame; the receive loop drops such a
\* datagram without delivering a frame to a stream: it creates no stream,
\* activates none and writes no file.
C26_MalformedDropped ==
    (d_last.called /\ d_last.malformed)
    => /\ LastFrames = <<>>
       /\ d_conn.streams = d_last.conn.streams
       /\ d_conn.active_streams_ids = d_last.conn.active_streams_ids
       /\ d_files = d_last.files

\* the bytes of the packet-number field of the packed c_packet
PacketNumberBytes ==
    Len(c_bytes) - HEADER_LENGTH - DEST_CONNECTION_ID_LENGTH
        - Len(EncodeAll(c_packet.payload))

\* C27: the packet-number field of a packed packet has
\* ceil(bit_length(pn) / 8) bytes and never fewer than 1, and the pn_len bits
\* of the header byte say that number of bytes, which is the number the
\* decoder steps over.
C27_PacketNumberLength ==
    c_pc = "packed"
    => LET wanted == (bit_length(c_packet.packet_number) + 7) \div 8
       IN  /\ PacketNumberBytes = (IF wanted < 1 THEN 1 ELSE wanted)
           /\ PacketHeader_unpack(Slice(c_bytes, 0, HEADER_LENGTH))
                 = PacketNumberBytes

\* the bytes of datagram k + 2 that hold the destination connection id and
\* the packet number
AddressBytes(k) ==
    Slice(wire[k + 2], HEADER_LENGTH,
          HEADER_LENGTH + DEST_CONNECTION_ID_LENGTH + (bit_length(k) + 7) \div 8)

\* C28: the k-th packet create_packet builds on a connection (k from 0) has
\* packet number k and destination connection id 1 - the local id, and
\* after it the packets-sent counter is k + 1: the packet being built has the
\* number of the counter, the packets sent carry the numbers 0, 1, ... in
\* order, and frames are placed under numbers that never decrease.
C28_ConsecutivePacketNumbers ==
    /\ pc[Snd] \in {"create_packet", "packet_built"}
       => /\ packet.packet_number = conn[Snd].sent_packets_counter
          /\ packet.destination_connection_id = 1 - conn[Snd].connection_id
    /\ pc[Snd] # "setup" => Len(wire) = 1 + conn[Snd].sent_packets_counter
    /\ \A k \in 0..(conn[Snd].sent_packets_counter - 1) :
          AddressBytes(k)
             = ToBytes(1 - conn[Snd].connection_id, DEST_CONNECTION_ID_LENGTH)
                  \o ToBytes(k, (bit_length(k) + 7) \div 8)
    /\ \A i \in 1..Len(placed) :
          /\ placed[i].packet_number <= conn[Snd].sent_packets_counter
          /\ \A j \in 1..Len(placed) :
                i < j => placed[i].packet_number <= placed[j].packet_number

\* three packets were built and sent, and frames were placed in each
C28_Witness ==
    /\ conn[Snd].sent_packets_counter >= 3
    /\ \A k \in 0..2 : \E i \in 1..Len(placed) : placed[i].packet_number = k

\* the active list of connection cn has no id twice, holds only ids of the
\* stream table, and holds no finished stream
ActiveListSound(cn) ==
    /\ \A i \in 1..Len(cn.active_streams_ids) :
          \A j \in 1..Len(cn.active_streams_ids) :
             i # j => cn.active_streams_ids[i] # cn.active_streams_ids[j]
    /\ \A i \in 1..Len(cn.active_streams_ids) :
          /\ is_stream_id_in_dict(cn, cn.active_streams_ids[i])
          /\ ~is_finished(cn.streams[cn.active_streams_ids[i]])

\* C29: between two operations of a connection the active-stream list holds
\* no id twice, only ids that are keys of the stream table, and no stream
\* whose is_finished() is true; an id enters when data was written to its
\* stream or a frame was received for it, and leaves when the stream is
\* finished and removed from the table.
C29_ActiveList ==
    /\ [] ActiveListSound(t_conn)
    /\ [][\A stream_id \in TableIds \cup DOMAIN t_conn.streams
                           \cup DOMAIN t_conn'.streams :
            /\ (~InList(t_conn.active_streams_ids, stream_id)
                /\ InList(t_conn'.active_streams_ids, stream_id))
               => \/ t_conn'.streams[stream_id].sender.buffer # <<>>
                  \/ DOMAIN t_conn'.streams[stream_id].receiver.recv_frame_dict
                        # {}
            /\ (InList(t_conn.active_streams_ids, stream_id)
                /\ ~InList(t_conn'.active_streams_ids, stream_id))
               => /\ ~is_stream_id_in_dict(t_conn', stream_id)
                  /\ t_last'.finished
                  /\ t_last'.stream.stream_id = stream_id]_vars

\* a stream left the active list when its FIN frame was handed out, while a
\* stream that received a frame after data was written to it stays active
C29_Witness ==
    /\ t_last.op = "send_next_frame"
    /\ t_last.finished
    /\ ~InList(t_conn.active_streams_ids, t_last.stream.stream_id)
    /\ \E i \in 1..Len(t_conn.active_streams_ids) :
          LET stream == t_conn.streams[t_conn.active_streams_ids[i]]
          IN  /\ stream.sender.buffer # <<>>
              /\ stream.receiver.curr_offset > 0

\* the number of bytes in the reassembly map of a receiver half
RECURSIVE MapBytes(_, _)
MapBytes(receiver, offsets) ==
    IF offsets = {} THEN 0
    ELSE LET offset == CHOOSE o \in offsets : TRUE
         IN  Len(receiver.recv_frame_dict[offset])
                + MapBytes(receiver, offsets \ {offset})

\* C30: for any sequence of frames delivered to one receiver half the
\* reassembly map is flushed into the buffer at most once (the buffer is
\* written only while it is empty), so the buffer never holds the data of a
\* received frame more than once (it is never longer than the map's data).
C30_FlushedOnce ==
    /\ [] (Len(h_rcv.buffer) <= MapBytes(h_rcv, DOMAIN h_rcv.recv_frame_dict))
    /\ [][h_rcv'.buffer # h_rcv.buffer => h_rcv.buffer = <<>>]_vars

\* the frames delivered to the receiver half have pairwise distinct offsets,
\* and the FIN frame was delivered last
DeliveredFinLast ==
    /\ ~h_late
    /\ \E i \in h_in : h_out[i].fin
    /\ \A i \in h_in : \A j \in h_in : i # j => h_out[i].offset # h_out[j].offset

RECURSIVE DataByOffset(_)
\* the data of the handed-out frames with the given indices, joined from
\* the least offset to the greatest
DataByOffset(indices) ==
    IF indices = {} THEN <<>>
    ELSE LET first == CHOOSE i \in indices :
                         \A j \in indices : h_out[i].offset <= h_out[j].offset
         IN  h_out[first].data \o DataByOffset(indices \ {first})

\* C31: when the frames of a stream, with pairwise distinct offsets, were
\* delivered to a receiver half in any order with the FIN frame last,
\* get_data_from_buffer() returns the data of all delivered frames joined in
\* ascending offset order.
C31_ReadIsDataByOffset ==
    [][(h_reads = <<>> /\ h_reads' # h_reads /\ DeliveredFinLast)
       => /\ ~h_reads'[1].raised
          /\ h_reads'[1].data = DataByOffset(h_in)]_vars

\* a first read after three frames were delivered, the FIN frame last
C31_Witness ==
    /\ Len(h_reads) = 1
    /\ h_reads[1].delivered = Cardinality(h_in)
    /\ Cardinality(h_in) >= 3
    /\ DeliveredFinLast
    /\ ~h_reads[1].raised
    /\ Len(h_reads[1].data) >= 3

\* C32: delivering a non-FIN frame to a receiver half changes neither its
\* state nor its contiguous buffer; delivering a FIN frame leaves the
\* receiver in DATA_RECVD, a terminal state, within the same call, whatever
\* offsets were received before.
C32_FrameEffect ==
    [][\A i \in h_in' \ h_in :
          IF h_out[i].fin
          THEN /\ h_rcv'.state = DATA_RECVD
               /\ is_terminal_state(h_rcv')
          ELSE /\ h_rcv'.state = h_rcv.state
               /\ h_rcv'.buffer = h_rcv.buffer]_vars

\* a non-FIN frame was delivered after the FIN frame: the map holds more
\* bytes than the buffer, and the state is still DATA_RECVD
C32_Witness ==
    /\ h_late
    /\ h_rcv.state = DATA_RECVD
    /\ h_rcv.buffer # <<>>
    /\ MapBytes(h_rcv, DOMAIN h_rcv.recv_frame_dict) > Len(h_rcv.buffer)

\* C33: when send_packets has left its loop and closed the connection, the
\* connection-level overflow queue is empty: every frame a stream handed out
\* through send_next_frame, FIN frames included, was placed in a packet, and
\* that packet was sent.
C33_NothingLeftPending ==
    pc[Snd] = "returned"
    => /\ conn[Snd].pending_frames = <<>>
       /\ Len(placed) = Len(handed)
       /\ \A i \in 1..Len(handed) :
             \E j \in 1..Len(placed) :
                /\ placed[j].frame = handed[i]
                /\ placed[j].packet_number < conn[Snd].sent_packets_counter

\* the receiver has written a file for the stream
Written(written, stream_id) ==
    \E i \in 1..Len(written) : written[i].stream_id = stream_id

\* C34: on an in-order reliable channel the receiver never closes its
\* connection because its active list is empty while the sender still has
\* frames of some stream to send or in flight: whenever _receive_packet
\* closes for that reason, every stream the sender is transferring has
\* been written.
C34_NoEarlyClose ==
    [][(pc[Rcv] = "receive_packets" /\ pc'[Rcv] = "returned" /\ rx' # rx)
       => \A stream_id \in DOMAIN loaded : Written(files', stream_id)]_vars

\* C35: for streams created with get_stream for the local role and loaded
\* with finite data, and for any choice of stream at each scheduling step,
\* send_packets builds finitely many packets and then closes the connection
\* with an empty active list.
C35_SendLoopEnds ==
    (pc[Snd] = "send_packets")
       ~> (/\ pc[Snd] = "returned"
           /\ conn[Snd].active_streams_ids = <<>>
           /\ conn[Snd].closes = 1)

\* send_packets returned after several packets that carried two streams
C35_Witness ==
    /\ pc[Snd] = "returned"
    /\ conn[Snd].sent_packets_counter >= 2
    /\ Cardinality(DOMAIN loaded) = 2
    /\ \A stream_id \in DOMAIN loaded :
          \E i \in 1..Len(placed) : placed[i].frame.stream_id = stream_id

\* C36: while a packet is being built, every stream that can be taken from
\* the active list returns a frame when asked for its next frame, for every
\* stream get_stream can create and that was given data: _create_packet never
\* encodes a missing frame.
C36_FrameWhenAsked ==
    /\ pc[Snd] # "raised"
    /\ (pc[Snd] = "create_packet" /\ conn[Snd].pending_frames = <<>>)
       => \A i \in 1..Len(conn[Snd].active_streams_ids) :
             send_next_frame(
                 conn[Snd].streams[conn[Snd].active_streams_ids[i]].sender
             ).frame # None

\* C37: in every reachable state of a sender half driven by the send loop of
\* the connection, the current offset is at most the length of the send
\* buffer, and it never decreases.
C37_OffsetWithinBuffer ==
    /\ [] (\A stream_id \in DOMAIN conn[Snd].streams :
              conn[Snd].streams[stream_id].sender.curr_offset
                 <= Len(conn[Snd].streams[stream_id].sender.buffer))
    /\ [][\A stream_id \in DOMAIN conn[Snd].streams \cap DOMAIN conn'[Snd].streams :
             conn'[Snd].streams[stream_id].sender.curr_offset
                >= conn[Snd].streams[stream_id].sender.curr_offset]_vars

RECURSIVE BytesPlacedBefore(_, _)
\* the data bytes of the frames of a stream among the first n frames placed
BytesPlacedBefore(stream_id, n) ==
    IF n = 0 THEN 0
    ELSE BytesPlacedBefore(stream_id, n - 1)
            + (IF placed[n].frame.stream_id = stream_id
               THEN Len(placed[n].frame.data) ELSE 0)

\* C38: every frame the send loop places in a packet has a length field
\* equal to the number of data bytes it carries and an offset equal to the
\* number of bytes of its stream carried by the frames of that stream placed
\* before it: the frames of a stream tile the send buffer without gap or
\* overlap.
C38_FramesTile ==
    \A i \in 1..Len(placed) :
       /\ placed[i].frame.length = Len(placed[i].frame.data)
       /\ placed[i].frame.offset = BytesPlacedBefore(placed[i].frame.stream_id, i - 1)
       /\ placed[i].frame.stream_id \in DOMAIN loaded
       /\ placed[i].frame.data
             = Slice(loaded[placed[i].frame.stream_id], placed[i].frame.offset,
                     placed[i].frame.offset + placed[i].frame.length)

RECURSIVE SizeOfFrames(_)
\* the space the frames take in a packet
SizeOfFrames(frames) ==
    IF frames = <<>> THEN 0
    ELSE getsizeof(encode(Head(frames))) + SizeOfFrames(Tail(frames))

\* C39: in every reachable state of the send loop the connection-level
\* overflow queue holds at most one frame; a frame is held there only from
\* the end of one packet to the first iteration of the next, and a frame held
\* there is the first frame placed in the next packet built.
C39_OneFramePending ==
    /\ [] (Len(conn[Snd].pending_frames) <= 1)
    /\ [] (conn[Snd].pending_frames # <<>>
           => \/ pc[Snd] \in {"packet_built", "send_packets", "returned"}
              \/ pc[Snd] = "create_packet" /\ packet.payload = <<>>)
    /\ [][(/\ conn[Snd].pending_frames # <<>>
           /\ pc[Snd] = "create_packet"
           /\ <<conn[Snd], pc[Snd], packet>>' # <<conn[Snd], pc[Snd], packet>>)
          => /\ conn'[Snd].pending_frames = <<>>
             /\ packet'.payload = <<Head(conn[Snd].pending_frames)>>
             /\ placed' = Append(placed,
                                 [packet_number |-> packet.packet_number,
                                  frame |-> Head(conn[Snd].pending_frames)])
             /\ handed' = handed]_vars

\* the first frame of a packet is a frame that did not fit into the packet
\* before it
C39_Witness ==
    /\ pc[Snd] = "create_packet"
    /\ packet.packet_number >= 1
    /\ Len(packet.payload) = 1
    /\ conn[Snd].pending_frames = <<>>
    /\ Len(handed) = Len(placed)
    /\ placed[Len(placed)].frame = packet.payload[1]
    /\ SizeOfFrames(FramesOfPacket(packet.packet_number - 1))
          + getsizeof(encode(packet.payload[1]))
       > PACKET_SIZE - SIZEOF_PACKET_OBJECT

====
